---- MODULE Spec2Model ----
(***************************************************************************)
(* Speza expense tracker (src/app.py): the CSV file behind DATA_PATH, the  *)
(* request handlers that load it into a DataFrame, change it and rewrite   *)
(* it in full, and the dashboard's aggregation.                            *)
(*                                                                         *)
(* A DataFrame is [columns, rows]; a row is a record over the five         *)
(* columns.  The file is [header, lines]; a line is a record of cells.     *)
(* Text cells are strings; the Amount cell is an integer (amounts are      *)
(* integral floats, which to_csv/read_csv carry exactly).                  *)
(***************************************************************************)
EXTENDS Integers, Sequences, FiniteSets, TLC

VARIABLES csv_file, req, resp, appended, only_appends, workers, order

vars == <<csv_file, req, resp, appended, only_appends, workers, order>>

\* Most data rows the file is let to hold.
MaxRows == 3

\* ---------------------------------------------------------------- data

Columns == <<"Date", "Type", "Category", "Amount", "Note">>

\* pandas' missing value, as load_data returns it for an empty text cell.
NaN == "NaN"

\* Cell texts read_csv takes for a missing value (keep_default_na).
na_values == {"", "NaN", "nan", "NA", "N/A", "null"}

\* read_csv on one text cell.
read_cell(c) == IF c \in na_values THEN NaN ELSE c

\* to_csv on one text value (na_rep is the empty string).
write_cell(v) == IF v = NaN THEN "" ELSE v

read_line(l) ==
    [Date |-> read_cell(l.Date), Type |-> read_cell(l.Type),
     Category |-> read_cell(l.Category), Amount |-> l.Amount,
     Note |-> read_cell(l.Note)]

write_row(r) ==
    [Date |-> write_cell(r.Date), Type |-> write_cell(r.Type),
     Category |-> write_cell(r.Category), Amount |-> r.Amount,
     Note |-> write_cell(r.Note)]

\* pd.DataFrame(columns=[...]) : the empty frame with the five columns.
EmptyFrame == [columns |-> Columns, rows |-> <<>>]

\* df.to_csv(DATA_PATH, index=False): the whole file is replaced.
to_csv(df) ==
    [header |-> df.columns,
     lines  |-> [k \in 1..Len(df.rows) |-> write_row(df.rows[k])]]

\* pd.read_csv(DATA_PATH); a zero-byte file (no header) is EmptyDataError.
load_data(f) ==
    IF f.header = <<>>
    THEN EmptyFrame
    ELSE [columns |-> f.header,
          rows    |-> [k \in 1..Len(f.lines) |-> read_line(f.lines[k])]]

\* float(amount) on the form's text: the texts that parse, and their value.
float_table == ("1000" :> 1000) @@ ("3000" :> 3000)

is_float(s) == s \in DOMAIN float_table

float(s) == float_table[s]

\* ---------------------------------------------------------------- forms

Form(d, t, c, a, n) == [date |-> d, type |-> t, category |-> c, amount |-> a, note |-> n]

\* request.form of the POSTs the model sends: five with an amount that
\* parses, two with one that does not.
Forms ==
    { Form("2024-01-05", "Income",   "Salary",  "3000", ""),
      Form("2024-01-20", "Expense",  "Food",    "1000", "lunch"),
      Form("2024-02-10", "Expense",  "Rent",    "3000", ""),
      Form("someday",    "Income",   "Gift",    "1000", "bonus"),
      Form("2024-02-10", "Transfer", "Savings", "1000", "to savings"),
      Form("2024-02-10", "Expense",  "Rent",    "abc",  "typo"),
      Form("2024-01-20", "Income",   "Gift",    "",     "") }

\* The forms of the concurrent requests.
ConcForms ==
    { Form("2024-01-05", "Income",  "Salary", "3000", ""),
      Form("2024-01-20", "Expense", "Food",   "1000", "lunch") }

NoForm == Form("", "", "", "", "")

Indexes == 0..MaxRows

\* ------------------------------------------------------------ responses

Redirect(to, msg) == [status |-> 302, location |-> to, flash |-> msg]

NoFlash == "-"

\* What a handler leaves behind: whether it reached df.to_csv, the frame it
\* wrote, and its response.
Outcome(w, df, r) == [write |-> w, df |-> df, resp |-> r]

\* The file after a handler: rewritten in full when to_csv was reached.
commit(f, out) == IF out.write THEN to_csv(out.df) ELSE f

\* ------------------------------------------------------------- handlers

\* save_data with the frames concatenated the other way round.
save_data_prepend(df, date, type_, category, amount, note) ==
    LET new_entry == [Date |-> date, Type |-> type_, Category |-> category,
                      Amount |-> amount, Note |-> note]
    IN  [df EXCEPT !.rows = <<new_entry>> \o @]

\* save_data after its load_data(): the new entry is concatenated at the
\* end (pd.concat([df, new_entry], ignore_index=True)).
save_data(df, date, type_, category, amount, note) ==
    LET new_entry == [Date |-> date, Type |-> type_, Category |-> category,
                      Amount |-> amount, Note |-> note]
    IN  [df EXCEPT !.rows = Append(@, new_entry)]

\* POST /add: float(amount) first; a ValueError is flashed and nothing saved.
add_expense(df, form) ==
    IF is_float(form.amount)
    THEN Outcome(TRUE,
                 save_data(df, form.date, form.type, form.category,
                           float(form.amount), form.note),
                 Redirect("dashboard", "added successfully!"))
    ELSE Outcome(FALSE, df,
                 Redirect("add_expense", "Invalid amount. Please enter a valid number."))

\* drop that removes the last row, whatever the index.
drop_last(df, index) == [df EXCEPT !.rows = SubSeq(@, 1, Len(@) - 1)]

\* df.drop(index) on the 0..N-1 labels reset_index leaves.
drop(df, index) ==
    [df EXCEPT !.rows = [k \in 1..(Len(@) - 1) |->
                            IF k <= index THEN @[k] ELSE @[k + 1]]]

\* POST /delete/<index>.
delete_transaction(df, index) ==
    IF 0 <= index /\ index < Len(df.rows)
    THEN Outcome(TRUE, drop(df, index),
                 Redirect("transactions", "Transaction deleted successfully!"))
    ELSE Outcome(FALSE, df, Redirect("transactions", NoFlash))

\* edit_transaction without the assignment of Note.
edit_transaction_no_note(df, index, form) ==
    IF 0 <= index /\ index < Len(df.rows)
    THEN IF is_float(form.amount)
         THEN Outcome(TRUE,
                      [df EXCEPT !.rows[index + 1] =
                          [Date |-> form.date, Type |-> form.type,
                           Category |-> form.category,
                           Amount |-> float(form.amount),
                           Note |-> @.Note]],
                      Redirect("transactions", "Transaction updated successfully!"))
         ELSE Outcome(FALSE, df, [status |-> 500, error |-> "ValueError"])
    ELSE Outcome(FALSE, df, Redirect("transactions", NoFlash))

\* edit_transaction without the range check: df.loc on a label the frame
\* does not have adds a row.
edit_transaction_unchecked(df, index, form) ==
    IF is_float(form.amount)
    THEN Outcome(TRUE,
                 IF index < Len(df.rows)
                 THEN [df EXCEPT !.rows[index + 1] =
                          [Date |-> form.date, Type |-> form.type,
                           Category |-> form.category,
                           Amount |-> float(form.amount), Note |-> form.note]]
                 ELSE [df EXCEPT !.rows = Append(@,
                          [Date |-> form.date, Type |-> form.type,
                           Category |-> form.category,
                           Amount |-> float(form.amount), Note |-> form.note])],
                 Redirect("transactions", "Transaction updated successfully!"))
    ELSE Outcome(FALSE, df, [status |-> 500, error |-> "ValueError"])

\* edit_transaction that rewrites the file although float() raised.
edit_transaction_partial(df, index, form) ==
    IF 0 <= index /\ index < Len(df.rows)
    THEN IF is_float(form.amount)
         THEN Outcome(TRUE,
                      [df EXCEPT !.rows[index + 1] =
                          [Date |-> form.date, Type |-> form.type,
                           Category |-> form.category,
                           Amount |-> float(form.amount),
                           Note |-> form.note]],
                      Redirect("transactions", "Transaction updated successfully!"))
         ELSE Outcome(TRUE,
                      [df EXCEPT !.rows[index + 1].Date = form.date,
                                 !.rows[index + 1].Type = form.type,
                                 !.rows[index + 1].Category = form.category],
                      [status |-> 500, error |-> "ValueError"])
    ELSE Outcome(FALSE, df, Redirect("transactions", NoFlash))

\* POST /edit/<index>: the five df.loc assignments; float() of a text that
\* does not parse raises between the third and the fifth, before to_csv,
\* and the request ends in a 500 with the file untouched.
edit_transaction(df, index, form) ==
    IF 0 <= index /\ index < Len(df.rows)
    THEN IF is_float(form.amount)
         THEN Outcome(TRUE,
                      [df EXCEPT !.rows[index + 1] =
                          [Date |-> form.date, Type |-> form.type,
                           Category |-> form.category,
                           Amount |-> float(form.amount),
                           Note |-> form.note]],
                      Redirect("transactions", "Transaction updated successfully!"))
         ELSE Outcome(FALSE,
                      [df EXCEPT !.rows[index + 1].Date = form.date,
                                 !.rows[index + 1].Type = form.type,
                                 !.rows[index + 1].Category = form.category],
                      [status |-> 500, error |-> "ValueError"])
    ELSE Outcome(FALSE, df, Redirect("transactions", NoFlash))

\* clear_data that builds the empty frame and never writes it.
clear_data_unsaved(df) == Outcome(FALSE, EmptyFrame, [status |-> 204])

\* POST /clear_data: the empty frame is written, whatever the file held.
clear_data(df) == Outcome(TRUE, EmptyFrame, [status |-> 204])

\* ------------------------------------------------------------ dashboard

RECURSIVE SumAmount(_)
\* Series.sum() of the Amount column of the given rows.
SumAmount(rows) ==
    IF rows = <<>> THEN 0 ELSE Head(rows).Amount + SumAmount(Tail(rows))

\* df.loc[df["Type"] == kind, "Amount"].sum()
total_of(df, kind) == SumAmount(SelectSeq(df.rows, LAMBDA r : r.Type = kind))

abs(x) == IF x < 0 THEN -x ELSE x

\* The mood logic with the threshold itself counted as close.
mood_inclusive(total_income, total_expense) ==
    IF total_expense > total_income THEN "bad"
    ELSE IF abs(total_income - total_expense) <= 2000 THEN "neutral"
    ELSE "good"

\* The mood logic of the dashboard.
mood(total_income, total_expense) ==
    IF total_expense > total_income THEN "bad"
    ELSE IF abs(total_income - total_expense) < 2000 THEN "neutral"
    ELSE "good"

\* The pie chart's data: px.pie sums the Amount of the Expense rows per
\* Category; with no Expense row the chart is a "No expenses yet" note.
chart(df) ==
    LET exp_df == SelectSeq(df.rows, LAMBDA r : r.Type = "Expense")
        names  == {exp_df[k].Category : k \in 1..Len(exp_df)}
    IN  [c \in names |-> SumAmount(SelectSeq(exp_df, LAMBDA r : r.Category = c))]

\* pd.to_datetime(errors="coerce") then strftime("%b %Y"): the texts that
\* parse as dates, with their month label; any other text is NaT, then NaN.
month_table ==
    ("2024-01-05" :> "Jan 2024") @@ ("2024-01-20" :> "Jan 2024") @@
    ("2024-02-10" :> "Feb 2024")

Month(r) == IF r.Date \in DOMAIN month_table THEN month_table[r.Date] ELSE NaN

\* The month labels in the order groupby sorts its keys (as strings).
month_sorted == <<"Feb 2024", "Jan 2024">>

\* The rows groupby(["Month", "Type"]) keeps: a missing key drops the row.
grouped(df) == SelectSeq(df.rows, LAMBDA r : Month(r) /= NaN /\ r.Type /= NaN)

\* monthly_summary["Month"].tolist()
monthly_labels(df) ==
    SelectSeq(month_sorted,
              LAMBDA m : \E k \in 1..Len(grouped(df)) : Month(grouped(df)[k]) = m)

\* monthly_summary.get(kind, pd.Series()).tolist(): unstack makes a column
\* per Type among the grouped rows, zero-filled; a Type with no grouped row
\* has no column, and get() answers the empty Series.
monthly_get(df, kind) ==
    IF \E k \in 1..Len(grouped(df)) : grouped(df)[k].Type = kind
    THEN [k \in 1..Len(monthly_labels(df)) |->
             SumAmount(SelectSeq(grouped(df),
                 LAMBDA r : Month(r) = monthly_labels(df)[k] /\ r.Type = kind))]
    ELSE <<>>

\* The dashboard without its df.empty check.
dashboard_unguarded(df) ==
    [status          |-> 200,
     template        |-> "dashboard.html",
     chart           |-> chart(df),
     total_income    |-> total_of(df, "Income"),
     total_expense   |-> total_of(df, "Expense"),
     balance         |-> total_of(df, "Income") - total_of(df, "Expense"),
     mood            |-> mood(total_of(df, "Income"), total_of(df, "Expense")),
     monthly_labels  |-> monthly_labels(df),
     monthly_income  |-> monthly_get(df, "Income"),
     monthly_expense |-> monthly_get(df, "Expense")]

\* GET /dashboard.
dashboard(df) ==
    IF df.rows = <<>>
    THEN Redirect("add_expense",
                  "No transactions found. Add some income or expenses to see your dashboard.")
    ELSE [status          |-> 200,
          template        |-> "dashboard.html",
          chart           |-> chart(df),
          total_income    |-> total_of(df, "Income"),
          total_expense   |-> total_of(df, "Expense"),
          balance         |-> total_of(df, "Income") - total_of(df, "Expense"),
          mood            |-> mood(total_of(df, "Income"), total_of(df, "Expense")),
          monthly_labels  |-> monthly_labels(df),
          monthly_income  |-> monthly_get(df, "Income"),
          monthly_expense |-> monthly_get(df, "Expense")]

\* ------------------------------------------------- requests, one at a time

\* A request: the route, its <int:index>, its form, and (for the record) the
\* number of data rows the file held when it arrived.
Request(name, index, form, n) ==
    [name |-> name, index |-> index, form |-> form, n |-> n]

Idle == [pc |-> "idle", req |-> Request("none", 0, NoForm, 0), df |-> EmptyFrame]

\* The module's start-up: a missing or zero-byte file is given its header.
Init ==
    /\ csv_file = to_csv(EmptyFrame)
    /\ req = Request("none", 0, NoForm, 0)
    /\ resp = [status |-> 0]
    /\ appended = <<>>
    /\ only_appends = TRUE
    /\ workers = [w \in {1, 2} |-> Idle]
    /\ order = <<>>

\* The handler of a request on the frame it loaded.
handle(df, rq) ==
    CASE rq.name = "add"    -> add_expense(df, rq.form)
      [] rq.name = "edit"   -> edit_transaction(df, rq.index, rq.form)
      [] rq.name = "delete" -> delete_transaction(df, rq.index)
      [] rq.name = "clear"  -> clear_data(df)

\* One whole request: load, handle, rewrite, respond.
Serve(rq) ==
    LET out == handle(load_data(csv_file), rq)
    IN  /\ Len(commit(csv_file, out).lines) <= MaxRows
        /\ csv_file' = commit(csv_file, out)
        /\ req' = rq
        /\ resp' = out.resp
        /\ UNCHANGED <<workers, order>>

AddExpense ==
    \E form \in Forms :
        /\ Serve(Request("add", 0, form, Len(csv_file.lines)))
        /\ IF is_float(form.amount)
           THEN /\ appended' = IF only_appends
                               THEN Append(appended,
                                        [Date |-> form.date, Type |-> form.type,
                                         Category |-> form.category,
                                         Amount |-> float(form.amount),
                                         Note |-> form.note])
                               ELSE <<>>
                /\ UNCHANGED only_appends
           ELSE UNCHANGED <<appended, only_appends>>

DeleteTransaction ==
    \E index \in Indexes :
        /\ Serve(Request("delete", index, NoForm, Len(csv_file.lines)))
        /\ IF csv_file' /= csv_file
           THEN appended' = <<>> /\ only_appends' = FALSE
           ELSE UNCHANGED <<appended, only_appends>>

EditTransaction ==
    \E index \in Indexes, form \in Forms :
        /\ Serve(Request("edit", index, form, Len(csv_file.lines)))
        /\ IF index < Len(csv_file.lines) /\ is_float(form.amount)
           THEN appended' = <<>> /\ only_appends' = FALSE
           ELSE UNCHANGED <<appended, only_appends>>

ClearData ==
    /\ Serve(Request("clear", 0, NoForm, Len(csv_file.lines)))
    /\ appended' = <<>>
    /\ only_appends' = TRUE

Dashboard ==
    /\ req' = Request("dashboard", 0, NoForm, Len(csv_file.lines))
    /\ resp' = dashboard(load_data(csv_file))
    /\ UNCHANGED <<csv_file, appended, only_appends, workers, order>>

Next ==
    \/ AddExpense
    \/ DeleteTransaction
    \/ EditTransaction
    \/ ClearData
    \/ Dashboard

Spec == Init /\ [][Next]_vars

\* ---------------------------------------------- two requests at the same time

\* Flask serves requests on threads: a handler's load_data() and its
\* df.to_csv() are separate steps with no lock between them.

\* A handler that loads only when it is about to rewrite.
snapshot_fresh(w) == load_data(csv_file)

\* The frame a handler holds between its load and its rewrite.
snapshot(w) == workers[w].df

ConcRequests(n) ==
    {Request("add", 0, form, n) : form \in ConcForms}
        \cup {Request("edit", i, form, n) : i \in 0..(MaxRows - 1), form \in ConcForms}
        \cup {Request("delete", i, NoForm, n) : i \in 0..(MaxRows - 1)}

\* A handler starts on thread w and loads the file.
Receive(w) ==
    /\ workers[w].pc = "idle"
    /\ \A e \in 1..Len(order) : order[e][2] /= w
    /\ \E rq \in ConcRequests(Len(csv_file.lines)) :
          /\ rq.name = "add" => Len(csv_file.lines) < MaxRows
          /\ workers' = [workers EXCEPT ![w] =
                            [pc |-> "loaded", req |-> rq, df |-> load_data(csv_file)]]
    /\ order' = Append(order, <<"load", w>>)
    /\ UNCHANGED <<csv_file, req, resp, appended, only_appends>>

\* The handler on thread w changes its frame and, unless it returned or
\* raised before that, rewrites the file from it.
Rewrite(w) ==
    /\ workers[w].pc = "loaded"
    /\ LET out == handle(snapshot(w), workers[w].req)
       IN  /\ csv_file' = commit(csv_file, out)
           /\ order' = Append(order, <<IF out.write THEN "write" ELSE "skip", w>>)
    /\ workers' = [workers EXCEPT ![w].pc = "done"]
    /\ UNCHANGED <<req, resp, appended, only_appends>>

\* The responses are sent; the threads are free for the next requests.
Respond ==
    /\ \E w \in {1, 2} : workers[w].pc = "done"
    /\ \A w \in {1, 2} : workers[w].pc /= "loaded"
    /\ workers' = [w \in {1, 2} |-> Idle]
    /\ order' = <<>>
    /\ UNCHANGED <<csv_file, req, resp, appended, only_appends>>

NextConc ==
    \/ \E w \in {1, 2} : Receive(w)
    \/ \E w \in {1, 2} : Rewrite(w)
    \/ Respond

SpecConc == Init /\ [][NextConc]_vars

\* ---------------------------------------------------------------- claims

\* What Load returns: the rows of load_data on the stored file.
Load == load_data(csv_file).rows

\* The transaction a form with a numeric amount stands for.
entry_of(form) ==
    [Date |-> form.date, Type |-> form.type, Category |-> form.category,
     Amount |-> float(form.amount), Note |-> form.note]

\* A transaction as Load returns it once stored: its texts as read back from
\* their CSV cells (a text given empty comes back as the missing value).
as_loaded(r) == read_line(write_row(r))

RemoveAt(seq, i) == SubSeq(seq, 1, i - 1) \o SubSeq(seq, i + 1, Len(seq))

(* C1: starting from empty storage, after N Appends with numeric amounts and
   no other mutation, Load returns exactly N transactions, the k-th of them
   being the k-th one appended. *)
AppendOrder ==
    only_appends =>
        /\ Len(Load) = Len(appended)
        /\ \A k \in 1..Len(appended) : Load[k] = as_loaded(appended[k])

AppendOrderWitness ==
    /\ only_appends
    /\ req.name = "add"
    /\ Len(appended) = 3
    /\ appended[1] /= appended[2]
    /\ appended[2] /= appended[3]

(* C2: DeleteAt(i) with 0 <= i < N followed by Load yields N-1 rows; a row
   formerly at j < i is unchanged at j, a row formerly at j > i is at j-1. *)
DeleteShifts ==
    [][ (req'.name = "delete" /\ req'.index < Len(load_data(csv_file).rows)) =>
            LET old == load_data(csv_file).rows
                new == load_data(csv_file').rows
                i   == req'.index
            IN  /\ Len(new) = Len(old) - 1
                /\ \A j \in 0..(Len(old) - 1) :
                      /\ j < i => new[j + 1] = old[j + 1]
                      /\ j > i => new[j] = old[j + 1] ]_vars

DeleteShiftsWitness ==
    /\ req.name = "delete"
    /\ req.index >= 1
    /\ req.index < req.n - 1
    /\ Len(Load) = req.n - 1
    /\ Load[req.index] /= Load[req.index + 1]

(* C3: EditAt(i, ...) with 0 <= i < N and a numeric amount, followed by Load,
   yields N rows; row i holds the five given fields (as Load returns stored
   fields) and every other row is unchanged. *)
EditOnlyIndex ==
    [][ (/\ req'.name = "edit"
         /\ req'.index < Len(load_data(csv_file).rows)
         /\ is_float(req'.form.amount)) =>
            LET old == load_data(csv_file).rows
                new == load_data(csv_file').rows
                i   == req'.index
            IN  /\ Len(new) = Len(old)
                /\ new[i + 1] = as_loaded(entry_of(req'.form))
                /\ \A j \in 0..(Len(old) - 1) : j /= i => new[j + 1] = old[j + 1] ]_vars

EditOnlyIndexWitness ==
    /\ req.name = "edit"
    /\ req.index = 1
    /\ req.n = 3
    /\ is_float(req.form.amount)
    /\ Len(Load) = 3
    /\ Load[2] = as_loaded(entry_of(req.form))
    /\ Load[1] /= Load[2]
    /\ Load[3] /= Load[2]

(* C4: DeleteAt or EditAt with an index at or past the length (any index on
   an empty collection included) leaves the stored collection as it was and
   raises no error. *)
OutOfRangeNoop ==
    [][ (req'.name \in {"delete", "edit"} /\ req'.index >= Len(csv_file.lines)) =>
            /\ csv_file' = csv_file
            /\ resp'.status = 302
            /\ resp'.location = "transactions" ]_vars

OutOfRangeNoopWitness ==
    /\ req.name = "edit"
    /\ req.index >= req.n
    /\ req.n >= 1
    /\ ~is_float(req.form.amount)
    /\ resp.status = 302

(* C5: an Append or an EditAt (at any index) whose amount does not parse as
   a number leaves the stored collection unchanged in every row and field. *)
AllOrNothing ==
    [][ (req'.name \in {"add", "edit"} /\ ~is_float(req'.form.amount)) =>
            csv_file' = csv_file ]_vars

AllOrNothingWitness ==
    /\ req.name = "edit"
    /\ req.index < req.n
    /\ ~is_float(req.form.amount)
    /\ resp.status = 500
    /\ Load[req.index + 1].Date /= read_cell(req.form.date)
    /\ Load[req.index + 1].Type /= read_cell(req.form.type)
    /\ Load[req.index + 1].Category /= read_cell(req.form.category)

RECURSIVE KindSum(_, _)
\* The sum of amount over the rows whose kind is exactly the given one.
KindSum(rows, kind) ==
    IF rows = <<>> THEN 0
    ELSE (IF Head(rows).Type = kind THEN Head(rows).Amount ELSE 0)
             + KindSum(Tail(rows), kind)

(* C6: the mood is bad exactly when totalExpense > totalIncome, neutral
   exactly when totalExpense <= totalIncome and their difference is under
   2000, good exactly when the difference is 2000 or more; the totals sum
   the rows of kind exactly Income and exactly Expense. *)
MoodClassification ==
    (req.name = "dashboard" /\ resp.status = 200) =>
        LET totalIncome  == KindSum(Load, "Income")
            totalExpense == KindSum(Load, "Expense")
        IN  /\ resp.total_income = totalIncome
            /\ resp.total_expense = totalExpense
            /\ resp.mood = "bad" <=> totalExpense > totalIncome
            /\ resp.mood = "neutral" <=>
                   (totalExpense <= totalIncome /\ totalIncome - totalExpense < 2000)
            /\ resp.mood = "good" <=> totalIncome - totalExpense >= 2000

MoodClassificationWitness ==
    /\ req.name = "dashboard"
    /\ resp.status = 200
    /\ resp.mood = "good"
    /\ resp.total_income - resp.total_expense = 2000
    /\ \E k \in 1..Len(Load) : Load[k].Type = "Transfer"

(* C7, as claimed: Aggregate on an empty collection produces a report with
   totalIncome = 0, totalExpense = 0, balance = 0, an empty
   categoryBreakdown and an empty monthlySeries. *)
EmptyDashboardReport ==
    (req.name = "dashboard" /\ Load = <<>>) =>
        /\ resp.status = 200
        /\ resp.total_income = 0
        /\ resp.total_expense = 0
        /\ resp.balance = 0
        /\ DOMAIN resp.chart = {}
        /\ resp.monthly_labels = <<>>
        /\ resp.monthly_income = <<>>
        /\ resp.monthly_expense = <<>>

(* C7, amended: on an empty collection the dashboard produces no report; it
   redirects to the add form with a "No transactions found" notice. *)
EmptyDashboardRedirects ==
    (req.name = "dashboard" /\ Load = <<>>) =>
        /\ resp.status = 302
        /\ resp.location = "add_expense"
        /\ DOMAIN resp = {"status", "location", "flash"}

EmptyDashboardWitness ==
    /\ req.name = "dashboard"
    /\ Load = <<>>
    /\ ~only_appends

\* The distinct months among the rows whose date parses.
ParseableMonths == {Month(Load[k]) : k \in 1..Len(Load)} \ {NaN}

(* C8: for a non-empty collection, monthlySeries has one entry per distinct
   month among the rows with parseable dates, each with an Income and an
   Expense total (zero where the month has no row of the kind), also when
   the collection has no Income or no Expense row: the income and expense
   sequences are as long as the month labels. *)
MonthlySeriesAligned ==
    (req.name = "dashboard" /\ resp.status = 200) =>
        /\ Len(resp.monthly_labels) = Cardinality(ParseableMonths)
        /\ {resp.monthly_labels[k] : k \in 1..Len(resp.monthly_labels)} = ParseableMonths
        /\ Len(resp.monthly_income) = Len(resp.monthly_labels)
        /\ Len(resp.monthly_expense) = Len(resp.monthly_labels)
        /\ \A k \in 1..Len(resp.monthly_labels) :
              /\ resp.monthly_income[k] =
                     KindSum(SelectSeq(Load, LAMBDA r : Month(r) = resp.monthly_labels[k]),
                             "Income")
              /\ resp.monthly_expense[k] =
                     KindSum(SelectSeq(Load, LAMBDA r : Month(r) = resp.monthly_labels[k]),
                             "Expense")

(* C9: from any state reached by Append, EditAt and DeleteAt, ClearAll
   followed by Load returns zero rows under the five columns Date, Type,
   Category, Amount, Note, and a subsequent Append yields exactly one row. *)
ClearThenLoad ==
    [][ /\ req'.name = "clear" =>
              /\ load_data(csv_file').rows = <<>>
              /\ load_data(csv_file').columns = <<"Date", "Type", "Category", "Amount", "Note">>
        /\ (req.name = "clear" /\ req'.name = "add" /\ is_float(req'.form.amount)) =>
              /\ Len(load_data(csv_file').rows) = 1
              /\ load_data(csv_file').rows[1] = as_loaded(entry_of(req'.form)) ]_vars

ClearThenLoadWitness ==
    /\ req.name = "clear"
    /\ req.n = 3
    /\ Load = <<>>
    /\ load_data(csv_file).columns = Columns

\* The rows a request alone leaves, applied to the rows it loaded.
Alone(rows, rq) ==
    CASE rq.name = "add"    -> Append(rows, as_loaded(entry_of(rq.form)))
      [] rq.name = "edit"   -> [rows EXCEPT ![rq.index + 1] = as_loaded(entry_of(rq.form))]
      [] rq.name = "delete" -> RemoveAt(rows, rq.index + 1)

\* Both handlers loaded before either rewrote, and both have rewritten.
Raced ==
    /\ Len(order) = 4
    /\ order[1][1] = "load" /\ order[2][1] = "load"
    /\ order[3][1] = "write" /\ order[4][1] = "write"

(* C10: when two mutating requests run concurrently and both load before
   either rewrites, the stored collection after both finish reflects only
   the second writer's mutation of what was loaded; the first writer's
   change is lost (two concurrent Appends to N rows leave N+1, not N+2). *)
LastWriterWins ==
    Raced =>
        LET first  == order[3][2]
            second == order[4][2]
        IN  /\ workers[first].df = workers[second].df
            /\ Load = Alone(workers[second].df.rows, workers[second].req)
            /\ (workers[first].req.name = "add" /\ workers[second].req.name = "add") =>
                   /\ Len(Load) = workers[first].req.n + 1
                   /\ Load[Len(Load)] = as_loaded(entry_of(workers[second].req.form))

LastWriterWinsWitness ==
    /\ Raced
    /\ workers[1].req.name = "add"
    /\ workers[2].req.name = "add"
    /\ workers[1].req.form /= workers[2].req.form
    /\ workers[1].req.n = 1
    /\ Len(Load) = 2

====
